---------------------------- MODULE Spec2Model ----------------------------
(***************************************************************************)
(* Model of src/black_scholes.py: the BlackScholesPricer class, its         *)
(* constructor, the distance terms d1/d2, price(), the five Greeks and the  *)
(* Newton-Raphson implied_volatility solver.                                *)
(*                                                                          *)
(* Python floats are modelled as binary floating-point numbers with a       *)
(* signed mantissa of Bits bits and an integer exponent, plus the IEEE      *)
(* special values +inf, -inf and nan.  Every arithmetic operation rounds    *)
(* its result to Bits bits, as a float operation rounds to 53 bits.  The    *)
(* library functions np.log, np.exp, np.sqrt, norm.cdf and norm.pdf are     *)
(* computed numerically to that precision.                                  *)
(***************************************************************************)
EXTENDS Integers, Sequences, FiniteSets, TLC

(***************************************************************************)
(* Floating point numbers:  [k, m, e]  is m * 2^e when k = "fin".           *)
(***************************************************************************)

\* Number of bits of a mantissa (53 in a double; products of two half
\* mantissas must stay below 2^31 here).
Bits == 29

HalfBits == Bits \div 2
MantLo == 2 ^ (Bits - 1)
MantHi == 2 ^ Bits
LoBase == 2 ^ HalfBits

\* The binary exponent of the leading bit outside this range overflows to
\* inf / underflows to 0, as a double does at 2^1024 and below 2^-1074.
MaxExp2 == 1023
MinExp2 == 0 - 1074

AbsI(n) == IF n < 0 THEN 0 - n ELSE n
SgnI(n) == IF n < 0 THEN 0 - 1 ELSE IF n = 0 THEN 0 ELSE 1

Zero == [k |-> "fin", m |-> 0, e |-> 0]
PInf == [k |-> "inf", m |-> 1, e |-> 0]
NInf == [k |-> "inf", m |-> 0 - 1, e |-> 0]
NaN  == [k |-> "nan", m |-> 0, e |-> 0]
InfS(s) == IF s < 0 THEN NInf ELSE PInf

IsFin(a) == a.k = "fin"
IsNaN(a) == a.k = "nan"
IsInf(a) == a.k = "inf"
Sign(a) == SgnI(a.m)

\* Round a non-negative mantissa n (below 2^31) times 2^e to Bits bits.
RECURSIVE NormMag(_, _)
NormMag(n, e) ==
    IF n = 0 THEN <<0, 0>>
    ELSE IF n >= MantHi * 2 THEN NormMag(n \div 2, e + 1)
    ELSE IF n >= MantHi THEN NormMag((n + 1) \div 2, e + 1)
    ELSE IF n < LoBase THEN NormMag(n * LoBase, e - HalfBits)
    ELSE IF n < MantLo \div 16 THEN NormMag(n * 16, e - 4)
    ELSE IF n < MantLo THEN NormMag(n * 2, e - 1)
    ELSE <<n, e>>

\* The float of sign s with the rounded mantissa and exponent r.
Pack(s, r) ==
    IF r[1] = 0 THEN Zero
    ELSE IF r[2] + Bits - 1 > MaxExp2 THEN InfS(s)
    ELSE IF r[2] + Bits - 1 < MinExp2 THEN Zero
    ELSE [k |-> "fin", m |-> s * r[1], e |-> r[2]]

\* The float nearest to s * n * 2^e  (s = +1 or -1, n >= 0), and to t * 2^e.
Mk(s, n, e) == Pack(s, NormMag(n, e))
MkSigned(t, e) == Mk(SgnI(t), AbsI(t), e)

\* The float of the integer n.
Int2F(n) == Mk(SgnI(n), AbsI(n), 0)

FNeg(a) == [a EXCEPT !.m = 0 - a.m]
FAbs(a) == [a EXCEPT !.m = AbsI(a.m)]

\* a + b for finite a, b with |a| >= |b|, both non-zero (one guard bit).
AddOrdered(a, b) ==
    IF a.e - b.e > Bits + 1 THEN a
    ELSE MkSigned(a.m * 2 + (b.m * 2) \div (2 ^ (a.e - b.e)), a.e - 1)

MagGe(a, b) ==
    \/ a.e > b.e
    \/ a.e = b.e /\ AbsI(a.m) >= AbsI(b.m)

FAdd(a, b) ==
    IF IsNaN(a) \/ IsNaN(b) THEN NaN
    ELSE IF IsInf(a) THEN (IF IsInf(b) /\ b.m # a.m THEN NaN ELSE a)
    ELSE IF IsInf(b) THEN b
    ELSE IF a.m = 0 THEN b
    ELSE IF b.m = 0 THEN a
    ELSE IF MagGe(a, b) THEN AddOrdered(a, b) ELSE AddOrdered(b, a)

FSub(a, b) == FAdd(a, FNeg(b))

\* The leading bits of the product of two normalised mantissas:
\* floor(x * y / 2^(2 * HalfBits)).
MulMag(x, y) ==
    LET x1 == x \div LoBase
        x0 == x % LoBase
        y1 == y \div LoBase
        y0 == y % LoBase
        t  == x1 * y0 + x0 * y1 + (x0 * y0) \div LoBase
    IN  x1 * y1 + t \div LoBase

FMul(a, b) ==
    IF IsNaN(a) \/ IsNaN(b) THEN NaN
    ELSE IF IsInf(a) \/ IsInf(b)
         THEN (IF a.m = 0 \/ b.m = 0 THEN NaN ELSE InfS(Sign(a) * Sign(b)))
    ELSE IF a.m = 0 \/ b.m = 0 THEN Zero
    ELSE Mk(Sign(a) * Sign(b), MulMag(AbsI(a.m), AbsI(b.m)),
            a.e + b.e + 2 * HalfBits)

\* Long division in base 4: n more quotient digits of r / y appended to q
\* (r < y < 2^Bits, so that 4 * r stays below 2^31).
RECURSIVE DivDigits(_, _, _, _)
DivDigits(q, r, y, n) ==
    IF n = 0 \/ q < 0 THEN q
    ELSE DivDigits(4 * q + (4 * r) \div y, (4 * r) % y, y, n - 1)

\* floor(x * 2^(2 * HalfBits) / y) for normalised mantissas x, y.
DivMag(x, y) == DivDigits(x \div y, x % y, y, HalfBits)

\* Division of numpy floats: a zero divisor gives inf or nan, not an error.
FDiv(a, b) ==
    IF IsNaN(a) \/ IsNaN(b) THEN NaN
    ELSE IF IsInf(a) THEN (IF IsInf(b) THEN NaN
                           ELSE InfS(a.m * (IF b.m < 0 THEN 0 - 1 ELSE 1)))
    ELSE IF IsInf(b) THEN Zero
    ELSE IF b.m = 0 THEN (IF a.m = 0 THEN NaN ELSE InfS(Sign(a)))
    ELSE IF a.m = 0 THEN Zero
    ELSE Mk(Sign(a) * Sign(b), DivMag(AbsI(a.m), AbsI(b.m)),
            a.e - b.e - 2 * HalfBits)

\* a / n for a finite a and an integer 0 < n < 2^HalfBits, in one step:
\* floor(|m| * 2^j / n) with 2^j the least power of 2 above n, rounded.
RECURSIVE BitLen(_)
BitLen(n) == IF n = 0 THEN 0 ELSE 1 + BitLen(n \div 2)

DivIntMag(x, n, j) == (x \div n) * 2 ^ j + ((x % n) * 2 ^ j) \div n
DivIntBy(a, n, j) == Mk(Sign(a), DivIntMag(AbsI(a.m), n, j), a.e - j)
FDivInt(a, n) == IF a.m = 0 THEN Zero ELSE DivIntBy(a, n, BitLen(n))

\* Comparisons; every comparison with nan is false.
FLt(a, b) ==
    IF IsNaN(a) \/ IsNaN(b) THEN FALSE
    ELSE IF IsInf(a) THEN a.m < 0 /\ ~(IsInf(b) /\ b.m < 0)
    ELSE IF IsInf(b) THEN b.m > 0
    ELSE IF Sign(a) # Sign(b) THEN Sign(a) < Sign(b)
    ELSE IF a.m = 0 THEN FALSE
    ELSE IF a.m > 0 THEN (a.e < b.e \/ (a.e = b.e /\ a.m < b.m))
    ELSE (a.e > b.e \/ (a.e = b.e /\ a.m < b.m))

FGt(a, b) == FLt(b, a)
FEq(a, b) == ~IsNaN(a) /\ ~IsNaN(b) /\ a = b
FGe(a, b) == FGt(a, b) \/ FEq(a, b)
FLe(a, b) == FLt(a, b) \/ FEq(a, b)

\* The float of the decimal literal n * 10^e  (10^j = 5^j * 2^j, j <= 13).
Pow10F(j) == Mk(1, 5 ^ j, j)
RECURSIVE Dec(_, _)
Dec(n, e) ==
    IF e >= 0 THEN FMul(Int2F(n), Pow10F(e))
    ELSE IF e >= 0 - 9 THEN FDiv(Int2F(n), Pow10F(0 - e))
    ELSE FDiv(Dec(n, e + 9), Pow10F(9))

(***************************************************************************)
(* Library functions: np.sqrt, np.exp, np.log, norm.pdf, norm.cdf.          *)
(***************************************************************************)

One == Int2F(1)
Two == Int2F(2)
HalfF == Mk(1, 1, 0 - 1)
Ln2 == Dec(693147181, 0 - 9)
InvSqrt2Pi == Dec(398942280, 0 - 9)

\* a * 2^n
Scale2(a, n) ==
    IF ~IsFin(a) \/ a.m = 0 THEN a ELSE Mk(Sign(a), AbsI(a.m), a.e + n)

\* The integer nearest to a finite a of magnitude below 2^Bits.
RoundInt(a) ==
    IF a.m = 0 \/ a.e < 0 - Bits THEN 0
    ELSE IF a.e >= 0 THEN a.m * 2 ^ a.e
    ELSE Sign(a) * ((AbsI(a.m) + 2 ^ (0 - a.e - 1)) \div 2 ^ (0 - a.e))

\* Integer square root by Newton's iteration from an upper estimate x.
RECURSIVE ISqrtFrom(_, _)
ISqrtFrom(n, x) ==
    LET y == (x + n \div x) \div 2
    IN  IF y >= x THEN x ELSE ISqrtFrom(n, y)

ISqrt(n) == IF n = 0 THEN 0 ELSE ISqrtFrom(n, 46340)

\* One Newton step of the square root:  (y + a / y) / 2.
SqrtStep(a, y) == FMul(HalfF, FAdd(y, FDiv(a, y)))

\* np.sqrt: nan for a negative number (with a warning).
FSqrt(a) ==
    IF IsNaN(a) THEN NaN
    ELSE IF a.m < 0 THEN NaN
    ELSE IF IsInf(a) THEN PInf
    ELSE IF a.m = 0 THEN Zero
    ELSE IF (a.e % 2) = 1
    THEN SqrtStep(a, SqrtStep(a, Mk(1, ISqrt(a.m * 2), (a.e - 1) \div 2)))
    ELSE SqrtStep(a, SqrtStep(a, Mk(1, ISqrt(a.m), a.e \div 2)))

\* The Taylor series of e^r in Horner form, evaluated from the inside:
\* acc is 1 + r/(n+1) * (1 + r/(n+2) * ( ... )).
RECURSIVE ExpSeries(_, _, _)
ExpSeries(r, n, acc) ==
    IF n = 0 \/ IsNaN(acc) THEN acc
    ELSE ExpSeries(r, n - 1, FAdd(One, FMul(FDivInt(r, n), acc)))

\* r = a - q * ln 2, with ln 2 split into a short leading part (so that
\* q * Ln2Hi is exact) and the rest.
Ln2Hi == Mk(1, 45426, 0 - 16)
Ln2Lo == Dec(142860682, 0 - 14)
ExpReduce(a, q) ==
    FSub(FSub(a, FMul(Int2F(q), Ln2Hi)), FMul(Int2F(q), Ln2Lo))

\* e^a = e^r * 2^q
ExpScaled(a, q) == Scale2(ExpSeries(ExpReduce(a, q), 11, One), q)

\* np.exp: inf above the largest double, 0 below the smallest.
FExp(a) ==
    IF IsNaN(a) THEN NaN
    ELSE IF IsInf(a) THEN (IF a.m > 0 THEN PInf ELSE Zero)
    ELSE IF FGt(a, Int2F(710)) THEN PInf
    ELSE IF FLt(a, Int2F(0 - 746)) THEN Zero
    ELSE ExpScaled(a, RoundInt(FDiv(a, Ln2)))

\* The series 1 + z2/3 + z2^2/5 + ... of atanh(z) / z (z2 = z^2) in Horner
\* form, evaluated from the inside: acc is 1/(n+2) + z2 * (1/(n+4) + ...).
RECURSIVE AtanhSeries(_, _, _)
AtanhSeries(z2, n, acc) ==
    IF n < 1 \/ IsNaN(acc) THEN acc
    ELSE AtanhSeries(z2, n - 2, FAdd(FDivInt(One, n), FMul(z2, acc)))

\* 2 * atanh(z)
Atanh2(z) == FMul(FMul(Two, z), AtanhSeries(FMul(z, z), 17, Zero))

\* ln g for g close to 1:  2 * atanh((g - 1) / (g + 1)).
LogNear1(g) == Atanh2(FDiv(FSub(g, One), FAdd(g, One)))

\* ln (f * 2^p) for 1 <= f < 2:  f * 2^p = g * 2^q with 3/4 <= g < 3/2.
LogParts(f, p) ==
    IF FGe(f, Dec(15, 0 - 1))
    THEN FAdd(FMul(Int2F(p + 1), Ln2), LogNear1(Scale2(f, 0 - 1)))
    ELSE FAdd(FMul(Int2F(p), Ln2), LogNear1(f))

\* ln a for a finite a >= 1.
LogGe1(a) ==
    LogParts([k |-> "fin", m |-> a.m, e |-> 1 - Bits], a.e + Bits - 1)

\* np.log: a zero gives -inf and a negative number nan (with a warning).
FLog(a) ==
    IF IsNaN(a) THEN NaN
    ELSE IF a.m < 0 THEN NaN
    ELSE IF IsInf(a) THEN PInf
    ELSE IF a.m = 0 THEN NInf
    ELSE IF FLt(a, One) THEN FNeg(LogGe1(FDiv(One, a)))
    ELSE LogGe1(a)

\* a ** 2
Square(a) == FMul(a, a)

\* norm.pdf:  exp(-x^2 / 2) / sqrt(2 pi)
NormPdf(x) == FMul(InvSqrt2Pi, FExp(FNeg(FMul(HalfF, Square(x)))))

\* x + x^3/3 + x^5/(3*5) + ... : acc is the sum of the terms before
\* t = x^(2n+1)/(2n+1)!!, and the sum ends when a term no longer changes it.
RECURSIVE CdfSeries(_, _, _, _)
CdfSum(x2, t, n, acc, sum) ==
    IF sum = acc THEN acc
    ELSE CdfSeries(x2, FDivInt(FMul(t, x2), 2 * n + 3), n + 1, sum)
CdfSeries(x2, t, n, acc) == CdfSum(x2, t, n, acc, FAdd(acc, t))

\* x + 1/(x + 2/(x + 3/(x + ...))): the continued fraction of the upper
\* tail, evaluated from the inside: acc is x + (n+1)/(x + (n+2)/...).
RECURSIVE TailFraction(_, _, _)
TailFraction(x, n, acc) ==
    IF n = 0 \/ IsNaN(acc) THEN acc
    ELSE TailFraction(x, n - 1, FAdd(x, FDiv(Int2F(n), acc)))

\* The upper tail 1 - cdf(x) for x >= 3.
UpperTail(x) == FDiv(NormPdf(x), TailFraction(x, 50, x))

\* norm.cdf
NormCdf(x) ==
    IF IsNaN(x) THEN NaN
    ELSE IF IsInf(x) THEN (IF x.m > 0 THEN One ELSE Zero)
    ELSE IF FGe(x, Int2F(3)) THEN FSub(One, UpperTail(x))
    ELSE IF FLe(x, Int2F(0 - 3)) THEN UpperTail(FNeg(x))
    ELSE FAdd(HalfF, FMul(NormPdf(x), CdfSeries(Square(x), x, 0, Zero)))

(***************************************************************************)
(* Strings whose letter case matters are sequences of characters.           *)
(***************************************************************************)

UpperLetters == <<"A", "B", "C", "D", "E", "F", "G", "H", "I", "J", "K", "L",
                  "M", "N", "O", "P", "Q", "R", "S", "T", "U", "V", "W", "X",
                  "Y", "Z">>
LowerLetters == <<"a", "b", "c", "d", "e", "f", "g", "h", "i", "j", "k", "l",
                  "m", "n", "o", "p", "q", "r", "s", "t", "u", "v", "w", "x",
                  "y", "z">>

LowerChar(c) ==
    IF \E n \in 1..Len(UpperLetters) : UpperLetters[n] = c
    THEN LowerLetters[CHOOSE n \in 1..Len(UpperLetters) : UpperLetters[n] = c]
    ELSE c

\* str.lower()
lower(str) == [n \in 1..Len(str) |-> LowerChar(str[n])]

call == <<"c", "a", "l", "l">>
put == <<"p", "u", "t">>

(***************************************************************************)
(* BlackScholesPricer: a pricer o is the record of the instance attributes  *)
(* [S, K, T, r, sigma, option_type].                                        *)
(***************************************************************************)

\* Python's max(a, b): b only when b > a.
PyMax(a, b) == IF FGt(b, a) THEN b ELSE a

\* _d1 without its guard on T == 0 (a variant the T = 0 convention excludes).
d1NoGuard(o) ==
    FDiv(FAdd(FLog(FDiv(o.S, o.K)),
              FMul(FAdd(o.r, FMul(HalfF, Square(o.sigma))), o.T)),
         FMul(o.sigma, FSqrt(o.T)))

\* _d1
d1(o) ==
    IF FEq(o.T, Zero)
    THEN (IF FGt(o.S, o.K) THEN PInf ELSE NInf)
    ELSE FDiv(FAdd(FLog(FDiv(o.S, o.K)),
                   FMul(FAdd(o.r, FMul(HalfF, Square(o.sigma))), o.T)),
              FMul(o.sigma, FSqrt(o.T)))

\* _d2
d2(o) == FSub(d1(o), FMul(o.sigma, FSqrt(o.T)))

\* K * exp(-r * T)
DiscountedK(o) == FMul(o.K, FExp(FMul(FNeg(o.r), o.T)))

\* price with the two payoffs of the T == 0 branch exchanged (a variant the
\* boundary payoff excludes).
pricePayoffsSwapped(o) ==
    IF FEq(o.T, Zero)
    THEN (IF o.option_type = call
          THEN PyMax(FSub(o.K, o.S), Zero)
          ELSE PyMax(FSub(o.S, o.K), Zero))
    ELSE IF o.option_type = call
         THEN FSub(FMul(o.S, NormCdf(d1(o))),
                   FMul(DiscountedK(o), NormCdf(d2(o))))
         ELSE FSub(FMul(DiscountedK(o), NormCdf(FNeg(d2(o)))),
                   FMul(o.S, NormCdf(FNeg(d1(o)))))

\* price
price(o) ==
    IF FEq(o.T, Zero)
    THEN (IF o.option_type = call
          THEN PyMax(FSub(o.S, o.K), Zero)
          ELSE PyMax(FSub(o.K, o.S), Zero))
    ELSE IF o.option_type = call
         THEN FSub(FMul(o.S, NormCdf(d1(o))),
                   FMul(DiscountedK(o), NormCdf(d2(o))))
         ELSE FSub(FMul(DiscountedK(o), NormCdf(FNeg(d2(o)))),
                   FMul(o.S, NormCdf(FNeg(d1(o)))))

\* delta
delta(o) ==
    IF o.option_type = call THEN NormCdf(d1(o))
    ELSE FSub(NormCdf(d1(o)), One)

\* gamma
gamma(o) ==
    FDiv(NormPdf(d1(o)), FMul(FMul(o.S, o.sigma), FSqrt(o.T)))

\* vega
vega(o) == FMul(FMul(o.S, FSqrt(o.T)), NormPdf(d1(o)))

\* theta
theta(o) ==
    LET term1 == FNeg(FDiv(FMul(FMul(o.S, NormPdf(d1(o))), o.sigma),
                           FMul(Two, FSqrt(o.T))))
    IN  IF o.option_type = call
        THEN FAdd(term1, FMul(FMul(FNeg(o.r), DiscountedK(o)), NormCdf(d2(o))))
        ELSE FAdd(term1, FMul(FMul(o.r, DiscountedK(o)), NormCdf(FNeg(d2(o)))))

\* rho
rho(o) ==
    IF o.option_type = call
    THEN FMul(FMul(FMul(o.K, o.T), FExp(FMul(FNeg(o.r), o.T))), NormCdf(d2(o)))
    ELSE FMul(FMul(FMul(FNeg(o.K), o.T), FExp(FMul(FNeg(o.r), o.T))),
              NormCdf(FNeg(d2(o))))

\* The methods price() calls on the way: none on the payoff branch.
priceCallees(o) ==
    IF FEq(o.T, Zero) THEN {} ELSE {"_d1", "_d2"}

(***************************************************************************)
(* Values that are not floats.                                              *)
(***************************************************************************)

\* Python's None, and the value of a name that is not bound (yet).
None == [k |-> "None", m |-> 0, e |-> 0]
Unbound == [k |-> "unbound", m |-> 0, e |-> 0]

NoInstance ==
    [S |-> Unbound, K |-> Unbound, T |-> Unbound, r |-> Unbound,
     sigma |-> Unbound, option_type |-> <<>>]
NoArgs == NoInstance

\* The arguments and locals of implied_volatility.
NoFrame ==
    [target_price |-> Unbound, tol |-> Unbound, max_iter |-> 0,
     sigma |-> Unbound, i |-> 0, price |-> Unbound, vega |-> Unbound,
     diff |-> Unbound]

(***************************************************************************)
(* The constructor.                                                         *)
(***************************************************************************)

MsgOptionType == "L'argument option_type doit etre 'call' ou 'put'"
MsgPositive == "La volatilite et le temps doivent etre positifs."

\* The attributes __init__ stores before it validates.
Stored(a) == [a EXCEPT !.option_type = lower(a.option_type)]

\* Validate with its two checks in the other order (a variant the order of
\* the checks excludes).
ValidateSignFirst(o) ==
    IF FLt(o.sigma, Zero) \/ FLt(o.T, Zero) THEN MsgPositive
    ELSE IF o.option_type \notin {call, put} THEN MsgOptionType
    ELSE ""

\* The ValueError __init__ raises for the stored attributes o ("" if none).
Validate(o) ==
    IF o.option_type \notin {call, put} THEN MsgOptionType
    ELSE IF FLt(o.sigma, Zero) \/ FLt(o.T, Zero) THEN MsgPositive
    ELSE ""

(***************************************************************************)
(* implied_volatility.                                                      *)
(***************************************************************************)

MsgVega == "Attention: Vega trop faible, convergence impossible."
MsgMaxIter == "Attention: Nombre maximum d'iterations atteint."

SeedSigma == Dec(5, 0 - 1)
DefaultTol == Dec(1, 0 - 5)
VegaFloor == Dec(1, 0 - 8)

\* A solver that works on a local copy and leaves self.sigma alone (a variant
\* the side effect excludes).
KeepSigma(o, sigma) == o

\* self.sigma = sigma
SetSigma(o, sigma) == [o EXCEPT !.sigma = sigma]

\* abs(diff) < tol
Converged(diff, tol) == FLt(FAbs(diff), tol)

\* abs(vega) < 1e-8
VegaTooSmall(v) == FLt(FAbs(v), VegaFloor)

\* The Newton update with the wrong sign (a variant the round trip excludes).
NewtonStepMinus(sigma, diff, v) == FSub(sigma, FDiv(diff, v))

\* sigma + diff / vega
NewtonStep(sigma, diff, v) == FAdd(sigma, FDiv(diff, v))

\* A numeric sentinel for an exhausted loop (a variant the None of the two
\* failure exits excludes).
RetZero == Zero

\* What the two failure exits return.
RetVegaTooSmall == None
RetMaxIter == None

\* range(max_iter) with its end included (a variant the iteration cap
\* excludes).
InRangeInclusive(i, max_iter) == i <= max_iter

\* i in range(max_iter)
InRange(i, max_iter) == i < max_iter

(***************************************************************************)
(* The inputs.                                                              *)
(***************************************************************************)

\* The largest max_iter tried (the default is 100).
MaxIter == 6

Spots == {Int2F(50), Int2F(100), Int2F(120)}
Strikes == {Int2F(100)}
Maturities == {Zero, Dec(25, 0 - 2), One, Int2F(0 - 1)}
Rates == {Dec(5, 0 - 2)}
Sigmas == {Dec(2, 0 - 1), Dec(5, 0 - 1), Dec(0 - 1, 0 - 1)}
OptionTypes ==
    {call, put, <<"C", "A", "L", "L">>, <<"P", "u", "t">>,
     <<"s", "t", "r", "a", "d", "d", "l", "e">>}

\* Volatilities that generate a market price for the round trip.
TrueSigmas == {Dec(3, 0 - 1), Int2F(2)}
\* Target prices no volatility can reach for a call: negative, above S.
OtherTargets == {Int2F(0 - 1), Int2F(200)}
Tols == {DefaultTol}
MaxIters == {0 - 1, 0, 1, 2, MaxIter}

(***************************************************************************)
(* The state.                                                               *)
(***************************************************************************)

VARIABLES
    pc,       \* "start", "raised" (by __init__), "idle", "solving" (inside
              \* the loop of implied_volatility), "returned" (from a call)
    self,     \* the attributes of the instance, NoInstance if there is none
    args,     \* the arguments of the constructor call that just ended
    raised,   \* the message of the ValueError raised, "" if none
    method,   \* the method called last
    ret,      \* what it returned
    stdout,   \* what it printed
    callees,  \* the methods it called on the way
    frame,    \* the arguments and locals of implied_volatility
    true_sigma, \* the volatility that generated target_price (Unbound if
              \* none did)
    estimate, \* the sigma at which the call last evaluated price and vega
    stop      \* the exit implied_volatility took: "converged",
              \* "vega_underflow", "max_iterations_exceeded", "" if none yet

vars == <<pc, self, args, raised, method, ret, stdout, callees, frame,
          true_sigma, estimate, stop>>

Init ==
    /\ pc = "start"
    /\ self = NoInstance
    /\ args = NoArgs
    /\ raised = ""
    /\ method = ""
    /\ ret = Unbound
    /\ stdout = ""
    /\ callees = {}
    /\ frame = NoFrame
    /\ true_sigma = Unbound
    /\ estimate = Unbound
    /\ stop = ""

\* BlackScholesPricer(S, K, T, r, sigma, option_type)
Construct ==
    /\ pc = "start"
    /\ \E S \in Spots, K \in Strikes, T \in Maturities, r \in Rates,
          sigma \in Sigmas, option_type \in OptionTypes :
          LET a == [S |-> S, K |-> K, T |-> T, r |-> r, sigma |-> sigma,
                    option_type |-> option_type]
              o == Stored(a)
              msg == Validate(o)
          IN  /\ args' = a
              /\ raised' = msg
              /\ IF msg = ""
                 THEN self' = o /\ pc' = "returned" /\ ret' = None
                 ELSE self' = NoInstance /\ pc' = "raised" /\ ret' = Unbound
    /\ method' = "__init__"
    /\ UNCHANGED <<stdout, callees, frame, true_sigma, estimate, stop>>

\* The caller goes on after a call has returned: the frame of the call and
\* the value it returned are gone.
Resume ==
    /\ pc = "returned"
    /\ pc' = "idle"
    /\ args' = NoArgs
    /\ method' = ""
    /\ ret' = Unbound
    /\ stdout' = ""
    /\ callees' = {}
    /\ frame' = NoFrame
    /\ true_sigma' = Unbound
    /\ estimate' = Unbound
    /\ stop' = ""
    /\ UNCHANGED <<self, raised>>

\* A call of a method that only reads the instance.
Query(name, value, called) ==
    /\ pc = "idle"
    /\ pc' = "returned"
    /\ method' = name
    /\ ret' = value
    /\ callees' = called
    /\ UNCHANGED <<self, args, raised, stdout, frame, true_sigma, estimate,
                   stop>>

CallD1 == Query("_d1", d1(self), {})
CallD2 == Query("_d2", d2(self), {"_d1"})
CallPrice == Query("price", price(self), priceCallees(self))
CallDelta == Query("delta", delta(self), {"_d1"})
CallGamma == Query("gamma", gamma(self), {"_d1"})
CallVega == Query("vega", vega(self), {"_d1"})
CallTheta == Query("theta", theta(self), {"_d1", "_d2"})
CallRho == Query("rho", rho(self), {"_d2"})

\* implied_volatility(target_price, tol, max_iter) up to the loop.  The
\* target is the price of a twin pricer with a true sigma, or another number.
Enter(target_price, tol, max_iter) ==
    /\ pc = "idle"
    /\ frame' = [NoFrame EXCEPT !.target_price = target_price, !.tol = tol,
                                !.max_iter = max_iter, !.sigma = SeedSigma]
    /\ pc' = "solving"
    /\ method' = "implied_volatility"
    /\ UNCHANGED <<self, args, raised, ret, stdout, callees, estimate, stop>>

CallImpliedVolatility ==
    \/ \E ts \in TrueSigmas :
          /\ pc = "idle"
          /\ true_sigma' = ts
          /\ \E tol \in Tols, max_iter \in MaxIters :
                Enter(price(SetSigma(self, ts)), tol, max_iter)
    \/ \E target_price \in OtherTargets, tol \in Tols, max_iter \in MaxIters :
          /\ true_sigma' = Unbound
          /\ Enter(target_price, tol, max_iter)

\* The body of the loop with the vega test ahead of the tolerance test (a
\* variant the order of the two tests excludes).
TestsVegaFirst(o, p, v, diff) ==
    /\ self' = o
    /\ IF VegaTooSmall(v)
       THEN /\ stdout' = MsgVega
            /\ ret' = RetVegaTooSmall
            /\ stop' = "vega_underflow"
            /\ pc' = "returned"
            /\ frame' = [frame EXCEPT !.price = p, !.vega = v, !.diff = diff]
       ELSE IF Converged(diff, frame.tol)
       THEN /\ ret' = frame.sigma
            /\ stop' = "converged"
            /\ pc' = "returned"
            /\ frame' = [frame EXCEPT !.price = p, !.vega = v, !.diff = diff]
            /\ UNCHANGED stdout
       ELSE /\ frame' = [frame EXCEPT
                           !.price = p, !.vega = v, !.diff = diff,
                           !.sigma = NewtonStep(frame.sigma, diff, v),
                           !.i = frame.i + 1]
            /\ UNCHANGED <<pc, ret, stdout, stop>>

\* The rest of the body of the loop, once self.sigma is set (o is the
\* instance then) and price, vega and diff are computed.
Tests(o, p, v, diff) ==
    /\ self' = o
    /\ IF Converged(diff, frame.tol)
       THEN /\ ret' = frame.sigma
            /\ stop' = "converged"
            /\ pc' = "returned"
            /\ frame' = [frame EXCEPT !.price = p, !.vega = v, !.diff = diff]
            /\ UNCHANGED stdout
       ELSE IF VegaTooSmall(v)
       THEN /\ stdout' = MsgVega
            /\ ret' = RetVegaTooSmall
            /\ stop' = "vega_underflow"
            /\ pc' = "returned"
            /\ frame' = [frame EXCEPT !.price = p, !.vega = v, !.diff = diff]
       ELSE /\ frame' = [frame EXCEPT
                           !.price = p, !.vega = v, !.diff = diff,
                           !.sigma = NewtonStep(frame.sigma, diff, v),
                           !.i = frame.i + 1]
            /\ UNCHANGED <<pc, ret, stdout, stop>>

Evaluated(o, p, v) == Tests(o, p, v, FSub(frame.target_price, p))

\* One pass through the body of the loop.
Iterate ==
    /\ pc = "solving"
    /\ InRange(frame.i, frame.max_iter)
    /\ Evaluated(SetSigma(self, frame.sigma),
                 price(SetSigma(self, frame.sigma)),
                 vega(SetSigma(self, frame.sigma)))
    /\ estimate' = frame.sigma
    /\ callees' = callees \cup {"price", "vega"}
    /\ UNCHANGED <<args, raised, method, true_sigma>>

\* The loop is exhausted.
Exhaust ==
    /\ pc = "solving"
    /\ ~InRange(frame.i, frame.max_iter)
    /\ stdout' = MsgMaxIter
    /\ ret' = RetMaxIter
    /\ stop' = "max_iterations_exceeded"
    /\ pc' = "returned"
    /\ UNCHANGED <<self, args, raised, method, callees, frame, true_sigma,
                   estimate>>

Next ==
    \/ Construct
    \/ Resume
    \/ CallD1
    \/ CallD2
    \/ CallPrice
    \/ CallDelta
    \/ CallGamma
    \/ CallVega
    \/ CallTheta
    \/ CallRho
    \/ CallImpliedVolatility
    \/ Iterate
    \/ Exhaust

Spec == Init /\ [][Next]_vars

(***************************************************************************)
(* The properties.                                                          *)
(***************************************************************************)

\* A call of method m has just returned.
Returned(m) == pc = "returned" /\ method = m

\* The instance is the pricer of the round-trip test.
IsTestCase ==
    /\ self.S = Int2F(100)
    /\ self.K = Int2F(100)
    /\ self.T = One
    /\ self.r = Dec(5, 0 - 2)
    /\ self.option_type = call

\* C1: the constructor raises, and leaves no instance, exactly when the
\* lower-cased option_type is neither 'call' nor 'put' or sigma < 0 or T < 0;
\* otherwise it stores the arguments (option_type lower-cased).  The error of
\* a bad option_type differs from the error of a negative sigma or T, and it
\* is the one raised when both checks fail.
C1_ConstructorValidates ==
    (method = "__init__" /\ pc \in {"returned", "raised"}) =>
        /\ (pc = "raised") <=>
               \/ lower(args.option_type) \notin {call, put}
               \/ FLt(args.sigma, Zero)
               \/ FLt(args.T, Zero)
        /\ (pc = "raised") => (self = NoInstance /\ raised # "")
        /\ (pc = "returned") =>
               /\ raised = ""
               /\ self = [args EXCEPT !.option_type = lower(args.option_type)]
        /\ (lower(args.option_type) \notin {call, put}) =>
               raised = "L'argument option_type doit etre 'call' ou 'put'"
        /\ (/\ lower(args.option_type) \in {call, put}
            /\ FLt(args.sigma, Zero) \/ FLt(args.T, Zero)) =>
               raised = "La volatilite et le temps doivent etre positifs."

\* C1, its case: both checks fail and the error raised is the one of the
\* option_type.
C1_BothChecksFail ==
    /\ pc = "raised"
    /\ lower(args.option_type) \notin {call, put}
    /\ FLt(args.sigma, Zero)
    /\ raised = MsgOptionType
    /\ self = NoInstance

\* C2 (as the code has it): implied_volatility returns None on both failure
\* exits, after printing the message of the exit, so what it returns is never
\* a number that could pass for a volatility, but the two failures differ only
\* by the message printed; a converged call returns a finite float and prints
\* nothing.
C2_FailuresReturnNone ==
    Returned("implied_volatility") =>
        /\ stop \in {"converged", "vega_underflow", "max_iterations_exceeded"}
        /\ (stop = "vega_underflow") =>
               /\ ret = None
               /\ stdout = "Attention: Vega trop faible, convergence impossible."
        /\ (stop = "max_iterations_exceeded") =>
               /\ ret = None
               /\ stdout = "Attention: Nombre maximum d'iterations atteint."
        /\ (stop = "converged") => (ret.k = "fin" /\ stdout = "")

\* C2, its case: a call has failed on a vanishing vega and returned None.
C2_VegaFailureReturned ==
    /\ Returned("implied_volatility")
    /\ stop = "vega_underflow"
    /\ ret = None
    /\ stdout = MsgVega

\* C2 as stated: what a call stopped by a vanishing vega returns differs from
\* what a call that exhausted its iterations returns.
C2_FailuresDistinct ==
    (Returned("implied_volatility") /\ stop = "vega_underflow") =>
        ret # RetMaxIter

\* C3 (as the code has it): whenever a call of implied_volatility has
\* evaluated price and vega, the stored sigma is the estimate of the last
\* evaluation, during the call and after it, whatever the exit; a call with
\* max_iter >= 1 evaluates at least once; a converged call returns the stored
\* sigma; and a call with max_iter <= 0 evaluates nothing and leaves the
\* instance as it was before the call.
C3_StoredSigmaIsLastEstimate ==
    /\ []((method = "implied_volatility" /\ estimate # Unbound) =>
              self.sigma = estimate)
    /\ []((Returned("implied_volatility") /\ frame.max_iter >= 1) =>
              estimate # Unbound)
    /\ []((Returned("implied_volatility") /\ stop = "converged") =>
              ret = self.sigma)
    /\ [][(pc = "idle" /\ pc' = "solving") => self' = self]_vars
    /\ [][(pc = "solving" /\ frame.max_iter <= 0) =>
              (self' = self /\ estimate' = Unbound /\ pc' = "returned")]_vars

\* C3, its case: a call has failed and the stored sigma is the estimate it
\* tried last, which is not the seed any more.
C3_FailedCallOverwroteSigma ==
    /\ Returned("implied_volatility")
    /\ stop = "vega_underflow"
    /\ self.sigma = estimate
    /\ estimate # Dec(5, 0 - 1)

\* C3 as stated: after any call of implied_volatility, max_iter <= 0 included,
\* the stored sigma is the last estimate at which price and vega were evaluated.
C3_AnyMaxIterStoresEstimate ==
    Returned("implied_volatility") =>
        (estimate # Unbound /\ self.sigma = estimate)

\* C4: with T = 0, price() returns max(S - K, 0) for a call and max(K - S, 0)
\* for a put (0 at S = K), and calls neither _d1 nor _d2.
C4_PayoffAtExpiry ==
    (Returned("price") /\ self.T = Zero) =>
        /\ callees = {}
        /\ (self.option_type = call) =>
               ret = (IF FGt(self.S, self.K) THEN FSub(self.S, self.K)
                      ELSE Zero)
        /\ (self.option_type = put) =>
               ret = (IF FGt(self.K, self.S) THEN FSub(self.K, self.S)
                      ELSE Zero)

\* C4, its case: price() of a call with T = 0, S = 120 and K = 100 returned 20.
C4_CallInTheMoneyAtExpiry ==
    /\ Returned("price")
    /\ self.T = Zero
    /\ self.option_type = call
    /\ self.S = Int2F(120)
    /\ ret = Int2F(20)
    /\ callees = {}

\* C5: with T = 0, _d1 returns +inf when S > K and -inf otherwise (S = K
\* included), and _d2 returns the same infinity.
C5_InfiniteLimitsAtExpiry ==
    (pc = "returned" /\ method \in {"_d1", "_d2"} /\ self.T = Zero) =>
        ret = (IF FGt(self.S, self.K) THEN PInf ELSE NInf)

\* C5, its case: _d2 of a pricer with T = 0 and S = K returned -inf.
C5_D2AtTheMoneyAtExpiry ==
    /\ Returned("_d2")
    /\ self.T = Zero
    /\ self.S = self.K
    /\ ret = NInf

\* C6 as stated: with T > 0, a call of implied_volatility whose target price
\* is negative, or above S for a call, fails: it returns no number.
C6_UnreachableTargetFails ==
    (/\ Returned("implied_volatility")
     /\ FGt(self.T, Zero)
     /\ \/ FLt(frame.target_price, Zero)
        \/ self.option_type = call /\ FGt(frame.target_price, self.S)) =>
        (stop # "converged" /\ ret = None)

\* C7 (as the code has it): the first estimate at which implied_volatility
\* evaluates price and vega is 0.5 whatever the instance holds; and for the
\* pricer of the test (S = 100, K = 100, T = 1, r = 0.05, call) and the price
\* that sigma = 0.30 generates, a call with max_iter >= 3 converges and
\* returns a volatility within 1e-4 of 0.30, whatever sigma the instance held
\* before the call.
C7_RoundTripOfTheTest ==
    (method = "implied_volatility") =>
        /\ (pc = "solving" /\ frame.i = 0) => frame.sigma = Dec(5, 0 - 1)
        /\ (frame.i = 0 /\ estimate # Unbound) => estimate = Dec(5, 0 - 1)
        /\ (/\ pc = "returned"
            /\ IsTestCase
            /\ true_sigma = Dec(3, 0 - 1)
            /\ frame.max_iter >= 3) =>
               /\ stop = "converged"
               /\ FLt(FAbs(FSub(ret, Dec(3, 0 - 1))), Dec(1, 0 - 4))

\* C7, its case: the call of the test has returned, on an instance whose
\* sigma was overwritten by the call.
C7_TestRecovered ==
    /\ Returned("implied_volatility")
    /\ IsTestCase
    /\ true_sigma = Dec(3, 0 - 1)
    /\ stop = "converged"
    /\ FLt(FAbs(FSub(ret, Dec(3, 0 - 1))), Dec(1, 0 - 4))
    /\ frame.i = 2

\* C7 as stated: for every T > 0 and every true sigma, a call on the price
\* the true sigma generates returns a volatility within the tolerance of the
\* true sigma (calls stopped by the iteration cap of this model set aside).
C7_RoundTripAlwaysRecovers ==
    (/\ Returned("implied_volatility")
     /\ true_sigma # Unbound
     /\ FGt(self.T, Zero)
     /\ stop # "max_iterations_exceeded") =>
        /\ stop = "converged"
        /\ FLt(FAbs(FSub(ret, true_sigma)), frame.tol)

\* C8: a call returns the current estimate in the first iteration in which
\* |target_price - price| < tol, whatever vega is there; it fails on vega only
\* in an iteration in which the tolerance test failed; the Newton update is
\* applied only after both tests failed, so never with |vega| < 1e-8; and a
\* returned volatility is the stored sigma, at which price() is within tol of
\* the target.
C8_ToleranceTestFirst ==
    (method = "implied_volatility") =>
        /\ (stop = "converged") =>
               /\ FLt(FAbs(frame.diff), frame.tol)
               /\ ret = estimate
               /\ ret = self.sigma
               /\ FLt(FAbs(FSub(frame.target_price, price(self))), frame.tol)
        /\ (stop = "vega_underflow") =>
               /\ ~FLt(FAbs(frame.diff), frame.tol)
               /\ FLt(FAbs(frame.vega), Dec(1, 0 - 8))
        /\ (pc = "solving" /\ frame.i > 0) =>
               /\ ~FLt(FAbs(frame.diff), frame.tol)
               /\ ~FLt(FAbs(frame.vega), Dec(1, 0 - 8))
               /\ frame.sigma = FAdd(estimate, FDiv(frame.diff, frame.vega))

\* C8, its case: with T = 0 and the payoff as target, the call returned the
\* seed 0.5 in its first iteration although vega is 0 there.
C8_ConvergedWithZeroVega ==
    /\ Returned("implied_volatility")
    /\ self.T = Zero
    /\ stop = "converged"
    /\ frame.vega = Zero
    /\ frame.i = 0
    /\ ret = Dec(5, 0 - 1)

\* The iterations a running call has left.
Remaining(f) == IF f.max_iter > f.i THEN f.max_iter - f.i ELSE 0

\* C9: a call of implied_volatility evaluates price and vega at most max_iter
\* times and then returns; it returns None when max_iter iterations met
\* neither test, and with max_iter <= 0 it returns None without evaluating
\* anything.  (frame.i counts the iterations that ended in a Newton update;
\* the iteration of a "converged" or "vega_underflow" exit is one more.)
\* It terminates: every step of a running call returns or leaves it one
\* iteration less, and with none left the step returns.
C9_AtMostMaxIterEvaluations ==
    /\ []((method = "implied_volatility") =>
            /\ (pc = "solving") =>
                   (frame.i = 0 \/ frame.i <= frame.max_iter)
            /\ (stop \in {"converged", "vega_underflow"}) =>
                   frame.i + 1 <= frame.max_iter
            /\ (stop = "max_iterations_exceeded") =>
                   /\ ret = None
                   /\ frame.i = (IF frame.max_iter > 0 THEN frame.max_iter
                                 ELSE 0)
            /\ (pc = "returned" /\ frame.max_iter <= 0) =>
                   /\ stop = "max_iterations_exceeded"
                   /\ ret = None
                   /\ callees = {}
                   /\ frame.price = Unbound
                   /\ estimate = Unbound)
    /\ [][(pc = "solving") =>
              \/ pc' = "returned"
              \/ /\ pc' = "solving"
                 /\ Remaining(frame) > 0
                 /\ Remaining(frame') = Remaining(frame) - 1
                 /\ frame'.max_iter = frame.max_iter]_vars

\* C9, its case: a call has used all its MaxIter iterations and returned None.
C9_LoopExhausted ==
    /\ Returned("implied_volatility")
    /\ stop = "max_iterations_exceeded"
    /\ frame.max_iter = MaxIter
    /\ frame.i = MaxIter
    /\ ret = None

\* C10 as stated: in every state of a constructed pricer option_type is
\* 'call' or 'put', T >= 0 and the stored sigma is >= 0.
C10_DataModelInvariants ==
    (self # NoInstance) =>
        /\ self.option_type \in {call, put}
        /\ FGe(self.T, Zero)
        /\ FGe(self.sigma, Zero)

=============================================================================
